---- MODULE Spec2Model ----
(***************************************************************************)
(* Model of simplepbr/_ibl_funcs/cpu.py: the CPU precomputation of the     *)
(* image based lighting data (SH irradiance coefficients, the split-sum    *)
(* BRDF lookup table and the roughness-filtered environment mip chain).    *)
(*                                                                         *)
(* Numbers.  Python floats are modelled as fixed-point numbers: the        *)
(* integer v stands for the value v / FP, and every product and quotient   *)
(* is rounded to the nearest multiple of 1 / FP.  The two values that the  *)
(* code computes without any rounding, van_der_corput's dyadic sums and    *)
(* hammersley's idx / maxnum, are kept as reduced fractions <<num, den>>,  *)
(* and the weighted sum of filter_sample is kept exact until it is divided *)
(* by the total weight.  sqrt, sin, cos and atan2 are evaluated by integer *)
(* square root and by short polynomial approximations.  A division of a    *)
(* vector by zero either yields NaN components or raises, depending on the *)
(* build of the host library: both outcomes are behaviours of the model.   *)
(***************************************************************************)
EXTENDS Integers, Sequences, FiniteSets, TLC

VARIABLES
    pc,        \* position of the running call: "start", a loop label, "done", "error"
    args,      \* arguments of the running call (a record)
    ret,       \* value returned by the last completed call
    err,       \* the exception the running call raised, "" while there is none
    cache,     \* hammersley's functools.lru_cache: (idx, maxnum) -> value
    k,         \* number of loop iterations of the running call completed so far
    shcoeffs,  \* get_sh_coeffs_from_cube_map: the list of SH accumulators
    shlog,     \* history of get_sh_coeffs_from_cube_map (fetches, additions, scalings)
    handle,    \* gen_brdf_lut: the RAM image, float slot offset -> value
    lutlog,    \* history of gen_brdf_lut: the offsets written, in order
    mip,       \* filter_env_map: the mip level i being filled
    texdata,   \* filter_env_map: the buffer of mip level i, float slot offset -> value
    mipmaps,   \* filter_env_map: the images handed to set_ram_mipmap_image, in order
    envlog     \* history of filter_env_map: the last filter_sample call in detail

vars == <<pc, args, ret, err, cache, k, shcoeffs, shlog, handle, lutlog,
          mip, texdata, mipmaps, envlog>>

shVars == <<shcoeffs, shlog>>
lutVars == <<handle, lutlog>>
envVars == <<mip, texdata, mipmaps, envlog>>

----------------------------------------------------------------------------
(* Bounds of the model *)

MaxIdx == 5        \* largest sample index passed to hammersley directly
MaxCalls == 3      \* number of direct hammersley calls in one behaviour
MaxDim == 3        \* largest cube map face resolution
MaxSize == 4       \* largest base size of the filtered environment map
MaxLut == 4        \* largest BRDF LUT size
MaxMips == 3       \* largest number of mip levels

\* sample counts passed as num_samples / maxnum (1024 is the code's default)
SampleCounts == {1, 2, 4, 1024}
\* sample counts used where every sample is evaluated
LoopCounts == {0, 1, 2, 4}
\* what dividing a vector by zero does: the quotient is NaN, or the call raises
ZeroDivOutcomes == {"nan", "raise"}

----------------------------------------------------------------------------
(* Fixed-point arithmetic *)

FP == 10000

Abs(a) == IF a < 0 THEN -a ELSE a
Sgn(a) == IF a < 0 THEN -1 ELSE IF a > 0 THEN 1 ELSE 0
Max(a, b) == IF a >= b THEN a ELSE b

\* a / b rounded to the nearest integer, b # 0
RDiv(a, b) == Sgn(a) * Sgn(b) * ((2 * Abs(a) + Abs(b)) \div (2 * Abs(b)))

Mul(a, b) == RDiv(a * b, FP)
Div(a, b) == RDiv(a * FP, b)

RECURSIVE SqrtSearch(_, _, _)
SqrtSearch(n, lo, hi) ==
    IF lo >= hi THEN lo
    ELSE LET mid == (lo + hi + 1) \div 2
         IN  IF mid * mid <= n THEN SqrtSearch(n, mid, hi)
             ELSE SqrtSearch(n, lo, mid - 1)

\* largest r with r * r <= n
ISqrt(n) == SqrtSearch(n, 0, IF n < 46340 THEN n ELSE 46340)

\* math.sqrt on fixed-point values
Sqrt(a) == ISqrt(a * FP)

PI == 31416        \* math.pi
HalfPI == RDiv(PI, 2)

\* sin on [-pi/2, pi/2] by its Taylor polynomial of degree 7
SinPoly(x) ==
    LET x2 == Mul(x, x)
        t3 == RDiv(Mul(x2, x), 6)
        t5 == Mul(t3, RDiv(x2, 20))
        t7 == Mul(t5, RDiv(x2, 42))
    IN  x - t3 + t5 - t7

\* math.sin for 0 <= x <= 2 pi + pi/2
Sin(x) ==
    LET y == IF x >= 2 * PI THEN x - 2 * PI ELSE x
    IN  IF y <= HalfPI THEN SinPoly(y)
        ELSE IF y <= PI + HalfPI THEN SinPoly(PI - y)
        ELSE SinPoly(y - 2 * PI)

\* math.cos for 0 <= x <= 2 pi
Cos(x) == Sin(x + HalfPI)

\* math.atan2(y, x) for x > 0 and |y| <= x: atan(z) is approximated by
\* z pi/4 - z (|z| - 1) (0.2447 + 0.0663 |z|)
Atan2(y, x) ==
    LET z == Div(y, x)
        a == Abs(z)
    IN  Mul(z, RDiv(PI, 4)) - Mul(Mul(z, a - FP), 2447 + Mul(663, a))

\* vectors: tuples of fixed-point numbers
Dot(a, b) == Mul(a[1], b[1]) + Mul(a[2], b[2]) + Mul(a[3], b[3])
Cross(a, b) == <<Mul(a[2], b[3]) - Mul(a[3], b[2]),
                 Mul(a[3], b[1]) - Mul(a[1], b[3]),
                 Mul(a[1], b[2]) - Mul(a[2], b[1])>>
Scale(v, s) == [j \in DOMAIN v |-> Mul(v[j], s)]
VAdd(a, b) == [j \in DOMAIN a |-> a[j] + b[j]]
VSub(a, b) == [j \in DOMAIN a |-> a[j] - b[j]]
Length(v) == ISqrt(v[1] * v[1] + v[2] * v[2] + v[3] * v[3])

\* LVector3.normalize / normalized: a zero vector stays zero
Normalized(v) ==
    LET len == Length(v)
    IN  IF len = 0 THEN <<0, 0, 0>> ELSE [j \in DOMAIN v |-> Div(v[j], len)]

Zero3 == <<0, 0, 0>>

\* NaN: a value that no computation of the model produces
NaN == 0 - 1000000000

\* exact fractions <<num, den>>, den > 0
RECURSIVE Gcd(_, _)
Gcd(a, b) == IF b = 0 THEN a ELSE Gcd(b, a % b)
Reduce(q) == LET g == Gcd(q[1], q[2]) IN <<q[1] \div g, q[2] \div g>>
RatAdd(p, q) == Reduce(<<p[1] * q[2] + q[1] * p[2], p[2] * q[2]>>)
ToFP(q) == RDiv(q[1] * FP, q[2])

----------------------------------------------------------------------------
(* DirectionMapper *)

\* calc_vector: err is TRUE when float(...) / float((dim - 1) * 2) divides by zero
calc_vector(dim, face_idx, xloc, yloc) ==
    LET xden == (dim - 1) * 2 - 1
        yden == (dim - 1) * 2
    IN  IF xden = 0 \/ yden = 0 THEN [err |-> TRUE, vec |-> Zero3]
        ELSE LET xcoord == RDiv(xloc * FP, xden)
                 ycoord == RDiv((1 - yloc) * FP, yden)
             IN  [err |-> FALSE,
                  vec |-> CASE face_idx = 0 -> <<FP, ycoord, -xcoord>>
                            [] face_idx = 1 -> <<-FP, ycoord, xcoord>>
                            [] face_idx = 2 -> <<xcoord, FP, -ycoord>>
                            [] face_idx = 3 -> <<xcoord, -FP, ycoord>>
                            [] face_idx = 4 -> <<xcoord, ycoord, FP>>
                            [] face_idx = 5 -> <<-xcoord, ycoord, -FP>>]

calc_sphere_quadrant_area(x, y) ==
    Atan2(Mul(x, y), Sqrt(Mul(x, x) + Mul(y, y) + FP))

calc_solid_angle(invdim, x, y) ==
    LET s  == Mul((x * FP + FP \div 2) * 2, invdim) - FP
        t  == Mul((y * FP + FP \div 2) * 2, invdim) - FP
        x0 == s - invdim
        y0 == t - invdim
        x1 == s + invdim
        y1 == t + invdim
    IN  calc_sphere_quadrant_area(x0, y0) - calc_sphere_quadrant_area(x0, y1)
          - calc_sphere_quadrant_area(x1, y0) + calc_sphere_quadrant_area(x1, y1)

----------------------------------------------------------------------------
(* SampleSequence *)

RECURSIVE VdcLoop(_, _, _, _)
VdcLoop(idx, base, denom, result) ==
    IF idx = 0 THEN result
    ELSE VdcLoop(idx \div base, base, denom * base,
                 RatAdd(result, <<idx % base, denom * base>>))

\* a slip of van_der_corput: denom starts at base
van_der_corput_denom(idx, base) == VdcLoop(idx, base, base, <<0, 1>>)

\* van_der_corput: an exact fraction
van_der_corput(idx, base) == VdcLoop(idx, base, 1, <<0, 1>>)

\* the body of hammersley, maxnum > 0
hammersley(idx, maxnum) == <<Reduce(<<idx, maxnum>>), van_der_corput(idx, 2)>>

\* a slip of the cache: calls filed under idx alone
CacheKeyIdxOnly(idx, maxnum) == <<idx, 1>>

\* the key functools.lru_cache files a call under
CacheKey(idx, maxnum) == <<idx, maxnum>>

\* a call of the memoized hammersley with the cache c: the value returned and
\* the cache afterwards
HammersleyCached(c, idx, maxnum) ==
    LET key == CacheKey(idx, maxnum)
    IN  IF key \in DOMAIN c THEN [val |-> c[key], cache |-> c]
        ELSE LET v == hammersley(idx, maxnum)
             IN  [val |-> v, cache |-> c @@ (key :> v)]

\* the calls hammersley(idx, num_samples) for idx in range(num_samples) made by
\* one run of a sampling loop: the points returned, in order, and the cache
RECURSIVE SampleLoop(_, _, _, _)
SampleLoop(c, idx, num_samples, xis) ==
    IF idx >= num_samples THEN [cache |-> c, xis |-> xis]
    ELSE LET h == HammersleyCached(c, idx, num_samples)
         IN  SampleLoop(h.cache, idx + 1, num_samples, Append(xis, h.val))

EmptyCache == [key \in {} |-> <<>>]

----------------------------------------------------------------------------
(* GGXSampler *)

\* the condition of line 181, abs(normal.z < 0.999): abs of a bool is 1 or 0
UpIsZ(normal) == normal[3] < 9990

\* lines 181-184: the tangent frame importance_sample_ggx builds around normal
FrameOf(upvec, tangent, normal) ==
    [upvec |-> upvec, tangent |-> tangent, bitangent |-> Cross(normal, tangent)]

UpVec(normal) == IF UpIsZ(normal) THEN <<0, 0, FP>> ELSE <<FP, 0, 0>>

TangentFrame(normal) ==
    FrameOf(UpVec(normal), Normalized(Cross(UpVec(normal), normal)), normal)

\* line 172
GgxCosTheta(xi1, alpha) == Sqrt(Div(FP - xi1, FP + Mul(Mul(alpha, alpha) - FP, xi1)))

\* line 173
GgxSinTheta(costheta) == Sqrt(FP - Mul(costheta, costheta))

\* lines 175-179
GgxHvec(phi, costheta, sintheta) ==
    <<Mul(Cos(phi), sintheta), Mul(Sin(phi), sintheta), costheta>>

\* line 186
GgxToWorld(hvec, f, normal) ==
    Normalized(VAdd(VAdd(Scale(f.tangent, hvec[1]), Scale(f.bitangent, hvec[2])),
                    Scale(normal, hvec[3])))

GgxTangentSpace(xi0, costheta) ==
    GgxHvec(Mul(2 * PI, xi0), costheta, GgxSinTheta(costheta))

\* importance_sample_ggx; xi is a pair of fractions
importance_sample_ggx(xi, normal, roughness) ==
    GgxToWorld(GgxTangentSpace(ToFP(xi[1]),
                               GgxCosTheta(ToFP(xi[2]), Mul(roughness, roughness))),
               TangentFrame(normal), normal)

\* light = hvec * 2 * view.dot(hvec) - view; light.normalize()
Reflect(view, hvec) ==
    Normalized(VSub(Scale(Scale(hvec, 2 * FP), Dot(view, hvec)), view))

----------------------------------------------------------------------------
(* VisibilityTerm *)

geometry_schlick_ggx(ndotv, roughness) ==
    LET alpha == roughness
        kibl == RDiv(Mul(alpha, alpha), 2)
    IN  Div(ndotv, Mul(ndotv, FP - kibl) + kibl)

geometry_smith(normal, view, light, roughness) ==
    LET ndotv == Max(Dot(normal, view), 0)
        ndotl == Max(Dot(normal, light), 0)
    IN  Mul(geometry_schlick_ggx(ndotv, roughness), geometry_schlick_ggx(ndotl, roughness))

----------------------------------------------------------------------------
(* BRDFIntegrator *)

\* 0.0001, the floor of ndotv
NdotvFloor == RDiv(FP, 10000)

\* lines 227-228
BrdfAdd(retval, fresnel, geom_vis) ==
    <<retval[1] + Mul(FP - fresnel, geom_vis), retval[2] + Mul(fresnel, geom_vis)>>

\* line 225: math.pow(1 - vdoth, 5)
Fresnel(a) == Mul(Mul(Mul(a, a), Mul(a, a)), a)

\* line 224: (geom * vdoth) / (ndoth * ndotv), dividing by one factor at a time
\* so that the small product does not round to zero
GeomVis(geom, vdoth, ndoth, ndotv) == Div(Div(Mul(geom, vdoth), ndoth), ndotv)

\* lines 218-228
BrdfWeigh(retval, hvec, light, view, normal, ndotv, roughness) ==
    IF Max(light[3], 0) > 0
    THEN BrdfAdd(retval,
                 Fresnel(FP - Max(Dot(view, hvec), 0)),
                 GeomVis(geometry_smith(normal, view, light, roughness),
                         Max(Dot(view, hvec), 0), Max(hvec[3], 0), ndotv))
    ELSE retval

BrdfReflect(retval, hvec, view, normal, ndotv, roughness) ==
    BrdfWeigh(retval, hvec, Reflect(view, hvec), view, normal, ndotv, roughness)

\* one iteration of integrate_brdf's loop: the new value of retval
BrdfSample(retval, xi, view, normal, ndotv, roughness) ==
    BrdfReflect(retval, importance_sample_ggx(xi, normal, roughness),
                view, normal, ndotv, roughness)

RECURSIVE BrdfLoop(_, _, _, _, _, _, _)
BrdfLoop(retval, xis, j, view, normal, ndotv, roughness) ==
    IF j > Len(xis) THEN retval
    ELSE BrdfLoop(BrdfSample(retval, xis[j], view, normal, ndotv, roughness),
                  xis, j + 1, view, normal, ndotv, roughness)

\* lines 231-232: retval /= num_samples divides by zero when num_samples = 0,
\* and zd says what that does
BrdfDivide(retval, c, num_samples, zd) ==
    IF num_samples = 0
    THEN [err |-> zd = "raise", val |-> <<NaN, NaN>>, cache |-> c]
    ELSE [err |-> FALSE,
          val |-> <<RDiv(retval[1], num_samples), RDiv(retval[2], num_samples)>>,
          cache |-> c]

\* lines 204-212, with the points loop.xis the loop draws
BrdfIntegrate(loop, ndotv, roughness, num_samples, zd) ==
    BrdfDivide(BrdfLoop(<<0, 0>>, loop.xis, 1,
                        <<Sqrt(FP - Mul(ndotv, ndotv)), 0, ndotv>>, <<0, 0, FP>>,
                        ndotv, roughness),
               loop.cache, num_samples, zd)

\* integrate_brdf called with the hammersley cache c: val is the LVector2
\* (x, y) returned, cache the cache afterwards
integrate_brdf(c, ndotv, roughness, num_samples, zd) ==
    BrdfIntegrate(SampleLoop(c, 0, num_samples, <<>>), Max(ndotv, NdotvFloor),
                  roughness, num_samples, zd)

\* brdflut.component_width * brdflut.num_components for T_float, F_rg16
LutPixelSize == 4 * 2

\* the offset gen_brdf_lut packs texel (xcoord, ycoord) at
LutOffset(xsize, xcoord, ycoord) == (ycoord * xsize + xcoord) * LutPixelSize

\* a slip of line 247: the channels in the order of the LVector2
LutPackUnswapped(result) == <<result[1], result[2]>>

\* the two floats struct.pack_into('ff', ...) writes for result
LutPack(result) == <<result[2], result[1]>>

----------------------------------------------------------------------------
(* EnvironmentPrefilter *)

\* envmap.lookup(color, u, v, w): the colour of the environment cube map in
\* direction dir, one colour for each face and each quadrant of a face
EnvColor(dir) ==
    LET ax == Abs(dir[1])
        ay == Abs(dir[2])
        az == Abs(dir[3])
        major == IF ax >= ay /\ ax >= az THEN 1 ELSE IF ay >= az THEN 2 ELSE 3
        face == 2 * (major - 1) + (IF dir[major] < 0 THEN 1 ELSE 0)
        u == dir[IF major = 1 THEN 2 ELSE 1]
        v == dir[IF major = 3 THEN 2 ELSE 3]
    IN  <<(face + 1) * 1000, IF u < 0 THEN 2500 ELSE 7500, IF v < 0 THEN 4000 ELSE 9000>>

\* the conventional prefilter: the lookup along the light direction
LookupDirLight(pos, light) == light

\* the direction filter_sample passes to envmap.lookup
LookupDir(pos, light) == pos

\* lines 266-268 for a sample with ndotl > 0: the lookup at dir and the sums.
\* retval is kept exact (scale FP * FP) until its final division.
FilterAdd(acc, dir, color, light, ndotl) ==
    [retval |-> [j \in 1..3 |-> acc.retval[j] + color[j] * ndotl],
     totweight |-> acc.totweight + ndotl,
     lookups |-> Append(acc.lookups, dir),
     lights |-> Append(acc.lights, light)]

\* lines 264-268
FilterWeigh(acc, light, pos, normal) ==
    IF Max(Dot(normal, light), 0) > 0
    THEN FilterAdd(acc, LookupDir(pos, light), EnvColor(LookupDir(pos, light)),
                   light, Max(Dot(normal, light), 0))
    ELSE acc

\* one iteration of filter_sample's loop on the accumulators acc
FilterStep(acc, xi, pos, normal, view, roughness) ==
    FilterWeigh(acc, Reflect(view, importance_sample_ggx(xi, normal, roughness)),
                pos, normal)

RECURSIVE FilterLoop(_, _, _, _, _, _, _)
FilterLoop(acc, xis, j, pos, normal, view, roughness) ==
    IF j > Len(xis) THEN acc
    ELSE FilterLoop(FilterStep(acc, xis[j], pos, normal, view, roughness),
                    xis, j + 1, pos, normal, view, roughness)

\* lines 270-271: retval /= totweight divides by zero when no sample was
\* accepted, and zd says what that does.  call records the call: its result
\* (err, val), the directions looked up, the light directions of the accepted
\* samples and the tangent frame of its importance_sample_ggx calls.
FilterDivide(acc, c, pos, normal, roughness, num_samples, zd) ==
    [cache |-> c,
     call |-> [pos |-> pos, normal |-> normal, roughness |-> roughness,
               num_samples |-> num_samples, totweight |-> acc.totweight,
               lookups |-> acc.lookups, lights |-> acc.lights,
               frame |-> TangentFrame(normal),
               err |-> acc.totweight = 0 /\ zd = "raise",
               val |-> IF acc.totweight = 0 THEN <<NaN, NaN, NaN>>
                       ELSE [j \in 1..3 |-> RDiv(acc.retval[j], acc.totweight)]]]

\* lines 253-268, with the points loop.xis the loop draws and view = normal
FilterIntegrate(loop, pos, normal, roughness, num_samples, zd) ==
    FilterDivide(FilterLoop([retval |-> Zero3, totweight |-> 0, lookups |-> <<>>,
                             lights |-> <<>>],
                            loop.xis, 1, pos, normal, normal, roughness),
                 loop.cache, pos, normal, roughness, num_samples, zd)

\* filter_sample called with the hammersley cache c
filter_sample(c, pos, roughness, num_samples, zd) ==
    FilterIntegrate(SampleLoop(c, 0, num_samples, <<>>), pos, Normalized(pos),
                    roughness, num_samples, zd)

\* filtered.component_width * filtered.num_components for T_float, F_rgb32
EnvPixelSize == 4 * 3

\* int(size * 0.5 ** i)
MipSize(size, i) == size \div (2 ^ i)

\* i / num_mipmaps
MipRoughness(i, num_mipmaps) == RDiv(i * FP, num_mipmaps)

\* the offset filter_env_map packs texel (face, xcoord, ycoord) at
EnvOffset(mipsize, face, xcoord, ycoord) ==
    ((face * mipsize + ycoord) * mipsize + xcoord) * EnvPixelSize

\* the (face, x, y) that the generator of lines 294-299 yields as its n-th
\* coordinate, n < 6 * mipsize * mipsize
EnvCoordAt(mipsize, n) ==
    [face |-> n \div (mipsize * mipsize),
     x |-> (n \div mipsize) % mipsize,
     y |-> n % mipsize]

\* the three floats struct.pack_into('fff', ...) writes for result
EnvPack(result) == <<result[3], result[2], result[1]>>

----------------------------------------------------------------------------
(* SHProjector *)

get_sh_basis_from_vector(vec) ==
    LET vecx == vec[1]
        vecy == vec[2]
        vecz == vec[3]
    IN  <<2821,
          Mul(4886, vecx),
          Mul(4886, vecz),
          Mul(4886, vecy),
          Mul(Mul(10925, vecx), vecz),
          Mul(Mul(10925, vecy), vecz),
          Mul(Mul(10925, vecy), vecx),
          Mul(Mul(9462, vecz), vecz) - 3154,
          Mul(5463, Mul(vecx, vecx) - Mul(vecy, vecy))>>

\* peeker.fetch_pixel(colorptr, x, y, face): the colour of the input cube map
TexelColor(face, x, y) == <<(face + 1) * 1000, (x + 1) * 2000, (y + 1) * 1500>>

\* a slip of lines 82-92: the check of the square faces is missing
InputErrorNoSquareCheck(tex) ==
    IF tex.z_size # 6 THEN "supplied texture was not a cube map"
    ELSE IF ~tex.ram
         THEN "expected might_have_ram_image() to be true on supplied texture"
    ELSE IF ~tex.peek THEN "unable to get TexturePeeker for texture"
    ELSE ""

\* the exception the checks of lines 82-92 raise for the texture tex, "" if none
InputError(tex) ==
    IF tex.z_size # 6 THEN "supplied texture was not a cube map"
    ELSE IF tex.x_size # tex.y_size
         THEN "supplied cube map is using unsupported, non-square dimensions"
    ELSE IF ~tex.ram
         THEN "expected might_have_ram_image() to be true on supplied texture"
    ELSE IF ~tex.peek THEN "unable to get TexturePeeker for texture"
    ELSE ""

A0 == 31416        \* a0 = 3.141593
A1 == 20944        \* a1 = 2.094395
A2 == 7854         \* a2 = 0.785398

\* a slip of lines 138-145: shcoeffs[8] *= a2 as well
ShScaledAlsoLast(idx, v) ==
    IF idx = 0 THEN Scale(v, A0)
    ELSE IF idx \in 1..3 THEN Scale(v, A1)
    ELSE Scale(v, A2)

\* lines 138-145: shcoeffs[idx] (idx counts from 0) after the statements
ShScaled(idx, v) ==
    IF idx = 0 THEN Scale(v, A0)
    ELSE IF idx \in 1..3 THEN Scale(v, A1)
    ELSE IF idx \in 4..7 THEN Scale(v, A2)
    ELSE v

\* lines 138-145: the coefficients that have a *= statement
ShIsScaled(idx) == idx \in 0..7

\* the (face, x, y) that the generator of lines 111-116 yields as its n-th sample
ShSampleAt(tex, n) ==
    [face |-> n \div (tex.x_size * tex.y_size),
     x |-> (n \div tex.y_size) % tex.x_size,
     y |-> n % tex.y_size]

\* lines 120-128: the weighted colour and the basis of one sample
ShWeightedColor(dim, smp) ==
    Scale(TexelColor(smp.face, smp.x, smp.y),
          calc_solid_angle(RDiv(FP, dim), smp.x, smp.y))

----------------------------------------------------------------------------
(* Buffers: a RAM image is its size in bytes, the float slots written so   *)
(* far (byte offset -> value) and the offsets packed at, in order          *)

EmptySlots == [o \in {} |-> 0]
NewBuffer(size) == [size |-> size, slots |-> EmptySlots, writes |-> <<>>]

\* struct.pack_into raises struct.error unless the floats fit the buffer
Fits(buf, offset, n) == offset >= 0 /\ offset + 4 * n <= buf.size

\* struct.pack_into of the floats values at offset
PackInto(buf, offset, values) ==
    LET at == {offset + 4 * (j - 1) : j \in 1..Len(values)}
    IN  [size |-> buf.size,
         slots |-> [o \in DOMAIN buf.slots \cup at |->
                       IF o \in at THEN values[(o - offset) \div 4 + 1]
                       ELSE buf.slots[o]],
         writes |-> Append(buf.writes, offset)]

----------------------------------------------------------------------------
(* State *)

NoShLog == [fetches |-> <<>>, adds |-> [i \in 0..8 |-> <<>>], scaled |-> [i \in 0..8 |-> 0]]

\* the state before a call of fn with the arguments a
Idle(a) ==
    /\ pc = "start"
    /\ args = a
    /\ ret = <<>>
    /\ err = ""
    /\ cache = EmptyCache
    /\ k = 0
    /\ shcoeffs = <<>>
    /\ shlog = NoShLog
    /\ handle = NewBuffer(0)
    /\ lutlog = <<>>
    /\ mip = 0
    /\ texdata = NewBuffer(0)
    /\ mipmaps = <<>>
    /\ envlog = <<>>

InitSeq == Idle([fn |-> "hammersley"])

InitVec ==
    \E dim \in 1..MaxDim, face_idx \in 0..5 :
        \E xloc \in 0..(dim - 1), yloc \in 0..(dim - 1) :
            Idle([fn |-> "calc_vector", dim |-> dim, face_idx |-> face_idx,
                  xloc |-> xloc, yloc |-> yloc])

InitSh ==
    \E z \in {4, 6}, x \in 1..MaxDim, y \in 1..MaxDim, ram \in BOOLEAN, peek \in BOOLEAN :
        Idle([fn |-> "get_sh_coeffs_from_cube_map",
              z_size |-> z, x_size |-> x, y_size |-> y, ram |-> ram, peek |-> peek])

InitLut ==
    \E lutsize \in 1..MaxLut, num_samples \in LoopCounts :
        Idle([fn |-> "gen_brdf_lut", lutsize |-> lutsize, num_samples |-> num_samples])

InitEnv ==
    \E size \in 1..MaxSize, num_mipmaps \in 1..MaxMips, num_samples \in LoopCounts :
        Idle([fn |-> "filter_env_map", size |-> size, num_mipmaps |-> num_mipmaps,
              num_samples |-> num_samples])

Init == InitSeq \/ InitVec \/ InitSh \/ InitLut \/ InitEnv

----------------------------------------------------------------------------
(* hammersley and its cache *)

\* a call hammersley(idx, maxnum)
HammersleyCall ==
    /\ args.fn = "hammersley"
    /\ k < MaxCalls
    /\ \E idx \in 0..MaxIdx, maxnum \in SampleCounts :
        \E h \in {HammersleyCached(cache, idx, maxnum)} :
            /\ args' = [fn |-> "hammersley", idx |-> idx, maxnum |-> maxnum]
            /\ ret' = h.val
            /\ cache' = h.cache
    /\ pc' = "returned"
    /\ k' = k + 1
    /\ UNCHANGED <<err, shVars, lutVars, envVars>>

\* the calls one sampling loop of integrate_brdf or filter_sample makes:
\* for idx in range(num_samples): xi = hammersley(idx, num_samples)
HammersleyFromLoop ==
    /\ args.fn = "hammersley"
    /\ k < MaxCalls
    /\ \E num_samples \in LoopCounts :
        \E loop \in {SampleLoop(cache, 0, num_samples, <<>>)} :
            /\ args' = [fn |-> "hammersley", num_samples |-> num_samples]
            /\ ret' = loop.xis
            /\ cache' = loop.cache
    /\ pc' = "looped"
    /\ k' = k + 1
    /\ UNCHANGED <<err, shVars, lutVars, envVars>>

----------------------------------------------------------------------------
(* calc_vector *)

CalcVectorCall ==
    /\ args.fn = "calc_vector"
    /\ pc = "start"
    /\ \E v \in {calc_vector(args.dim, args.face_idx, args.xloc, args.yloc)} :
           IF v.err
           THEN pc' = "error" /\ err' = "ZeroDivisionError" /\ ret' = ret
           ELSE pc' = "done" /\ err' = err /\ ret' = v.vec
    /\ UNCHANGED <<args, cache, k, shVars, lutVars, envVars>>

----------------------------------------------------------------------------
(* get_sh_coeffs_from_cube_map *)

\* lines 82-108: the checks, then the creation of the accumulators
ShCheck ==
    /\ args.fn = "get_sh_coeffs_from_cube_map"
    /\ pc = "start"
    /\ IF InputError(args) # ""
       THEN pc' = "error" /\ err' = InputError(args) /\ shcoeffs' = shcoeffs
       ELSE pc' = "samples" /\ err' = err /\ shcoeffs' = [i \in 1..9 |-> Zero3]
    /\ UNCHANGED <<args, ret, cache, k, shlog, lutVars, envVars>>

\* lines 118-130: one iteration of the loop over the samples
ShSample ==
    /\ args.fn = "get_sh_coeffs_from_cube_map"
    /\ pc = "samples"
    /\ k < args.z_size * args.x_size * args.y_size
    /\ \E smp \in {ShSampleAt(args, k)} :
       \E color \in {ShWeightedColor(args.x_size, smp)},
          v \in {calc_vector(args.x_size, smp.face, smp.x, smp.y)} :
       \E basis \in {get_sh_basis_from_vector(v.vec)} :
           IF v.err
           THEN /\ pc' = "error"
                /\ err' = "ZeroDivisionError"
                /\ shlog' = [shlog EXCEPT !.fetches = Append(@, smp)]
                /\ UNCHANGED <<shcoeffs, k>>
           ELSE /\ shcoeffs' = [i \in 1..9 |-> VAdd(shcoeffs[i], Scale(color, basis[i]))]
                /\ shlog' = [shlog EXCEPT !.fetches = Append(@, smp),
                                          !.adds = [i \in 0..8 |->
                                                      Append(@[i], smp)]]
                /\ k' = k + 1
                /\ UNCHANGED <<pc, err>>
    /\ UNCHANGED <<args, ret, cache, lutVars, envVars>>

\* lines 135-147: the cosine lobe factors, and the return
ShFinish ==
    /\ args.fn = "get_sh_coeffs_from_cube_map"
    /\ pc = "samples"
    /\ k = args.z_size * args.x_size * args.y_size
    /\ shcoeffs' = [i \in 1..9 |-> ShScaled(i - 1, shcoeffs[i])]
    /\ shlog' = [shlog EXCEPT !.scaled = [i \in 0..8 |->
                                            IF ShIsScaled(i) THEN @[i] + 1 ELSE @[i]]]
    /\ ret' = shcoeffs'
    /\ pc' = "done"
    /\ UNCHANGED <<args, err, cache, k, lutVars, envVars>>

----------------------------------------------------------------------------
(* gen_brdf_lut *)

\* lines 236-241
LutStart ==
    /\ args.fn = "gen_brdf_lut"
    /\ pc = "start"
    /\ handle' = NewBuffer(args.lutsize * args.lutsize * LutPixelSize)
    /\ pc' = "texels"
    /\ UNCHANGED <<args, ret, err, cache, k, lutlog, shVars, envVars>>

\* lines 245-247: one iteration of the loops over ycoord and xcoord
LutTexel ==
    /\ args.fn = "gen_brdf_lut"
    /\ pc = "texels"
    /\ k < args.lutsize * args.lutsize
    /\ \E zd \in ZeroDivOutcomes, ycoord \in {k \div args.lutsize},
          xcoord \in {k % args.lutsize} :
        \E idx \in {LutOffset(args.lutsize, xcoord, ycoord)},
           r \in {integrate_brdf(cache, RDiv(xcoord * FP, args.lutsize),
                                 RDiv(ycoord * FP, args.lutsize), args.num_samples, zd)} :
            /\ cache' = r.cache
            /\ IF r.err
               THEN pc' = "error" /\ err' = "ZeroDivisionError"
                    /\ UNCHANGED <<handle, lutlog, k>>
               ELSE IF ~Fits(handle, idx, 2)
               THEN pc' = "error" /\ err' = "struct.error"
                    /\ UNCHANGED <<handle, lutlog, k>>
               ELSE /\ handle' = PackInto(handle, idx, LutPack(r.val))
                    /\ lutlog' = Append(lutlog, [x |-> xcoord, y |-> ycoord, idx |-> idx])
                    /\ k' = k + 1
                    /\ UNCHANGED <<pc, err>>
    /\ UNCHANGED <<args, ret, shVars, envVars>>

\* line 249
LutReturn ==
    /\ args.fn = "gen_brdf_lut"
    /\ pc = "texels"
    /\ k = args.lutsize * args.lutsize
    /\ ret' = handle
    /\ pc' = "done"
    /\ UNCHANGED <<args, err, cache, k, lutVars, shVars, envVars>>

----------------------------------------------------------------------------
(* filter_env_map *)

\* lines 282-288
EnvStart ==
    /\ args.fn = "filter_env_map"
    /\ pc = "start"
    /\ mip' = 0
    /\ pc' = "mip"
    /\ UNCHANGED <<args, ret, err, cache, k, texdata, mipmaps, envlog, shVars, lutVars>>

\* lines 290-293: the next mip level and its buffer
EnvMipBegin ==
    /\ args.fn = "filter_env_map"
    /\ pc = "mip"
    /\ mip < args.num_mipmaps
    /\ LET mipsize == MipSize(args.size, mip)
       IN  texdata' = NewBuffer(mipsize * mipsize * 6 * EnvPixelSize)
    /\ k' = 0
    /\ pc' = "texels"
    /\ UNCHANGED <<args, ret, err, cache, mip, mipmaps, envlog, shVars, lutVars>>

\* lines 301-307: one iteration of the loop over the coordinates
EnvTexel ==
    /\ args.fn = "filter_env_map"
    /\ pc = "texels"
    /\ k < 6 * MipSize(args.size, mip) * MipSize(args.size, mip)
    /\ \E mipsize \in {MipSize(args.size, mip)},
          roughness \in {MipRoughness(mip, args.num_mipmaps)} :
       \E c \in {EnvCoordAt(mipsize, k)} :
       \E offset \in {EnvOffset(mipsize, c.face, c.x, c.y)},
          v \in {calc_vector(mipsize, c.face, c.x, c.y)} :
           IF v.err
              THEN pc' = "error" /\ err' = "ZeroDivisionError"
                   /\ UNCHANGED <<cache, k, texdata, envlog>>
              ELSE \E zd \in ZeroDivOutcomes :
                     \E r \in {filter_sample(cache, v.vec, roughness, args.num_samples, zd)} :
                         /\ cache' = r.cache
                         /\ envlog' = <<r.call>>
                         /\ IF r.call.err
                            THEN pc' = "error" /\ err' = "ZeroDivisionError"
                                 /\ UNCHANGED <<k, texdata>>
                            ELSE IF ~Fits(texdata, offset, 3)
                            THEN pc' = "error" /\ err' = "struct.error"
                                 /\ UNCHANGED <<k, texdata>>
                            ELSE /\ texdata' = PackInto(texdata, offset, EnvPack(r.call.val))
                                 /\ k' = k + 1
                                 /\ UNCHANGED <<pc, err>>
    /\ UNCHANGED <<args, ret, mip, mipmaps, shVars, lutVars>>

\* line 308: filtered.set_ram_mipmap_image(i, texdata)
EnvMipEnd ==
    /\ args.fn = "filter_env_map"
    /\ pc = "texels"
    /\ k = 6 * MipSize(args.size, mip) * MipSize(args.size, mip)
    /\ mipmaps' = Append(mipmaps, [level |-> mip,
                                   mipsize |-> MipSize(args.size, mip),
                                   roughness |-> MipRoughness(mip, args.num_mipmaps),
                                   image |-> texdata])
    /\ mip' = mip + 1
    /\ pc' = "mip"
    /\ UNCHANGED <<args, ret, err, cache, k, texdata, envlog, shVars, lutVars>>

\* the loop over the mip levels is over: filter_env_map returns
EnvReturn ==
    /\ args.fn = "filter_env_map"
    /\ pc = "mip"
    /\ mip = args.num_mipmaps
    /\ pc' = "done"
    /\ UNCHANGED <<args, ret, err, cache, k, envVars, shVars, lutVars>>

----------------------------------------------------------------------------

Next ==
    \/ HammersleyCall
    \/ HammersleyFromLoop
    \/ CalcVectorCall
    \/ ShCheck
    \/ ShSample
    \/ ShFinish
    \/ LutStart
    \/ LutTexel
    \/ LutReturn
    \/ EnvStart
    \/ EnvMipBegin
    \/ EnvTexel
    \/ EnvMipEnd
    \/ EnvReturn

Spec == Init /\ [][Next]_vars

----------------------------------------------------------------------------
(* Properties *)

NoDuplicates(seq) == \A i, j \in 1..Len(seq) : i # j => seq[i] # seq[j]
Range(seq) == {seq[i] : i \in 1..Len(seq)}
Texels(dim) == [face : 0..5, x : 0..(dim - 1), y : 0..(dim - 1)]
InSh == args.fn = "get_sh_coeffs_from_cube_map"
InLut == args.fn = "gen_brdf_lut"
InEnv == args.fn = "filter_env_map"
InSeq == args.fn = "hammersley"
InVec == args.fn = "calc_vector"

\* C1: get_sh_coeffs_from_cube_map rejects a texture that has not 6 faces, is
\* not square, has no RAM image or gives no peeker: the call raises before any
\* texel is fetched and before any SH accumulator exists, and returns nothing.
C1_EagerRejection ==
    (InSh /\ (args.z_size # 6 \/ args.x_size # args.y_size \/ ~args.ram \/ ~args.peek))
        => /\ pc \in {"start", "error"}
           /\ pc = "error" => err \notin {"", "ZeroDivisionError", "struct.error"}
           /\ shcoeffs = <<>>
           /\ shlog.fetches = <<>>
           /\ \A i \in 0..8 : shlog.adds[i] = <<>> /\ shlog.scaled[i] = 0
           /\ ret = <<>>

\* a square-less 6-face texture with a RAM image and a peeker has been rejected
C1_Witness ==
    /\ InSh /\ pc = "error"
    /\ args.z_size = 6 /\ args.x_size # args.y_size /\ args.ram /\ args.peek

\* C2: when no sample is accepted (the total weight is zero) filter_sample
\* returns the zero colour and does not fail.
C2_ZeroWeightGuarded ==
    \A i \in 1..Len(envlog) :
        envlog[i].totweight = 0 => (~envlog[i].err /\ envlog[i].val = Zero3)

\* C3: after gen_brdf_lut returns, the slot of every texel (x, y) holds (bias,
\* scale) of integrate_brdf(x / size, y / size, num_samples); every texel is
\* packed exactly once, at an offset of its own inside the image.
C3_LutLayout ==
    InLut =>
        /\ NoDuplicates(lutlog)
        /\ \A i, j \in 1..Len(lutlog) :
               i # j => \/ lutlog[i].idx + LutPixelSize <= lutlog[j].idx
                        \/ lutlog[j].idx + LutPixelSize <= lutlog[i].idx
        /\ \A i \in 1..Len(lutlog) :
               lutlog[i].idx >= 0 /\ lutlog[i].idx + 8 <= handle.size
        /\ pc = "done" =>
            /\ Len(lutlog) = args.lutsize * args.lutsize
            /\ \A x, y \in 0..(args.lutsize - 1) :
                 /\ Cardinality({i \in 1..Len(lutlog) :
                                    lutlog[i].x = x /\ lutlog[i].y = y}) = 1
                 /\ \E r \in {integrate_brdf(EmptyCache, RDiv(x * FP, args.lutsize),
                                             RDiv(y * FP, args.lutsize),
                                             args.num_samples, "nan").val} :
                        /\ ret.slots[(y * args.lutsize + x) * 8] = r[2]
                        /\ ret.slots[(y * args.lutsize + x) * 8 + 4] = r[1]

\* a LUT of several texels has been returned, with a texel whose bias and
\* scale differ
C3_Witness ==
    /\ InLut /\ pc = "done" /\ args.lutsize >= 2 /\ args.num_samples >= 2
    /\ \E o \in DOMAIN ret.slots : o % 8 = 0 /\ ret.slots[o] # ret.slots[o + 4]
                                   /\ ret.slots[o] > 0

\* C4: for every base size >= 1 and every number of mip levels >= 1,
\* filter_env_map runs to completion, and has then written every mip level i
\* once, with resolution size >> i, roughness i / num_mipmaps and one
\* filter_sample result for each texel at an offset of its own in the level.
C4_PrefilterCompletes ==
    InEnv =>
        /\ pc # "error"
        /\ pc = "done" =>
            /\ Len(mipmaps) = args.num_mipmaps
            /\ \A i \in 1..Len(mipmaps) :
                 /\ mipmaps[i].level = i - 1
                 /\ mipmaps[i].mipsize = args.size \div (2 ^ (i - 1))
                 /\ mipmaps[i].roughness = RDiv((i - 1) * FP, args.num_mipmaps)
                 /\ Len(mipmaps[i].image.writes) = 6 * mipmaps[i].mipsize * mipmaps[i].mipsize
                 /\ NoDuplicates(mipmaps[i].image.writes)
                 /\ \A j \in 1..Len(mipmaps[i].image.writes) :
                        /\ mipmaps[i].image.writes[j] >= 0
                        /\ mipmaps[i].image.writes[j] + 12 <= mipmaps[i].image.size

RECURSIVE C5_Sum(_, _, _)
\* the sum over the texels S of the weighted colour times the basis term idx
C5_Sum(S, dim, idx) ==
    IF S = {} THEN Zero3
    ELSE LET t == CHOOSE t \in S : TRUE
         IN  VAdd(Scale(ShWeightedColor(dim, t),
                        get_sh_basis_from_vector(calc_vector(dim, t.face, t.x, t.y).vec)[idx + 1]),
                  C5_Sum(S \ {t}, dim, idx))

\* the cosine lobe factors: pi, 2 pi / 3, pi / 4
C5_Factor(idx) == IF idx = 0 THEN 31416 ELSE IF idx <= 3 THEN 20944 ELSE 7854

\* C5: in get_sh_coeffs_from_cube_map every texel is added to each of the 9
\* accumulators exactly once; a coefficient is multiplied by its cosine lobe
\* factor once, and only after all the texels have been added: coefficient 0
\* by pi, 1-3 by 2 pi / 3, 4-7 by pi / 4, coefficient 8 by nothing; the result
\* has 9 coefficients.
C5_AccumulateThenScale ==
    InSh =>
        /\ \A i \in 0..8 :
             /\ NoDuplicates(shlog.adds[i])
             /\ Range(shlog.adds[i]) \subseteq Texels(args.x_size)
             /\ shlog.scaled[i] <= 1
             /\ shlog.scaled[i] = 1 =>
                    \A j \in 0..8 : Range(shlog.adds[j]) = Texels(args.x_size)
        /\ pc = "done" =>
            /\ Len(ret) = 9
            /\ \A i \in 0..8 :
                 /\ Range(shlog.adds[i]) = Texels(args.x_size)
                 /\ shlog.scaled[i] = (IF i <= 7 THEN 1 ELSE 0)
                 /\ \E sum \in {C5_Sum(Texels(args.x_size), args.x_size, i)} :
                        ret[i + 1] = (IF i <= 7 THEN Scale(sum, C5_Factor(i)) ELSE sum)

\* coefficients have been returned for a cube map of several texels per face,
\* the last of them not zero
C5_Witness ==
    InSh /\ pc = "done" /\ args.x_size >= 2 /\ ret[1] # Zero3 /\ ret[9] # Zero3

\* C6 as stated: hammersley(5, 1024) = (5 / 1024, 0.8125), 0.8125 = 13 / 16
C6_RegressionVector ==
    (InSeq /\ pc = "returned" /\ args.idx = 5 /\ args.maxnum = 1024)
        => ret = <<<<5, 1024>>, <<13, 16>>>>

\* C6, amended: hammersley(5, 1024) = (5 / 1024, van_der_corput(5, 2)), and
\* van_der_corput(5, 2) = 0.625 = 5 / 8
C6_RegressionVectorAmended ==
    (InSeq /\ pc = "returned" /\ args.idx = 5 /\ args.maxnum = 1024)
        => ret = <<<<5, 1024>>, <<5, 8>>>>

\* hammersley(5, 1024) has returned
C6_Witness == InSeq /\ pc = "returned" /\ args.idx = 5 /\ args.maxnum = 1024

\* C7: whatever calls came before, directly or from a sampling loop, the
\* memoized hammersley(i, n) returns what the uncached body computes, (i / n,
\* van_der_corput(i, 2)); no entry of the cache is filed under another call's
\* key; hammersley(0, n) = (0, 0).
C7_MemoizedIsPure ==
    /\ \A key \in DOMAIN cache : cache[key] = hammersley(key[1], key[2])
    /\ (InSeq /\ pc = "returned") =>
           /\ ret = <<Reduce(<<args.idx, args.maxnum>>), van_der_corput(args.idx, 2)>>
           /\ args.idx = 0 => ret = <<<<0, 1>>, <<0, 1>>>>
    /\ (InSeq /\ pc = "looped") =>
           \A i \in 1..Len(ret) : ret[i] = hammersley(i - 1, args.num_samples)

\* a call has returned while the cache held an entry of the same index and
\* another count, after a call that hit the cache
C7_Witness ==
    /\ InSeq /\ pc = "returned" /\ k > Cardinality(DOMAIN cache)
    /\ \E n \in SampleCounts :
           n # args.maxnum /\ <<args.idx, n>> \in DOMAIN cache /\ args.idx > 0

\* C8: the vector calc_vector returns has the face's axis at +1 or -1 and the
\* two texel coordinates remapped onto [-1, 1]: the other two components lie in
\* [-1, 1], the first texel of a row or column is mapped to one end of the
\* range and the last texel to the opposite end.
C8_RemapOntoUnitRange ==
    (InVec /\ pc = "done") =>
        LET axis == args.face_idx \div 2 + 1
            last == args.dim - 1
            corner == args.xloc \in {0, last} /\ args.yloc \in {0, last}
            \* the vector of the texel at the opposite end of the row and the column
            opposite == calc_vector(args.dim, args.face_idx,
                                    last - args.xloc, last - args.yloc).vec
        IN  /\ ret[axis] = (IF args.face_idx % 2 = 0 THEN FP ELSE -FP)
            /\ \A j \in 1..3 : -FP <= ret[j] /\ ret[j] <= FP
            /\ corner => \A j \in 1..3 : Abs(ret[j]) = FP
            /\ corner => \A j \in 1..3 \ {axis} : opposite[j] = -ret[j]

\* C9: in importance_sample_ggx the up vector is +Z unless |normal.z| >= 0.999,
\* then it is +X; so the up vector is never parallel to the normal and the
\* tangent up x normal is not zero.
C9_UpNeverParallel ==
    \A i \in 1..Len(envlog) :
        envlog[i].num_samples > 0 =>
            /\ envlog[i].frame.upvec =
                   (IF Abs(envlog[i].normal[3]) >= 9990 THEN <<FP, 0, 0>> ELSE <<0, 0, FP>>)
            /\ envlog[i].frame.tangent # Zero3

\* C10: every lookup of filter_sample is made at its direction argument, never
\* at the light direction it computed; so whenever a sample is accepted the
\* weighted average is the colour of the environment in that direction.
C10_LookupAtDirection ==
    \A i \in 1..Len(envlog) :
        /\ Len(envlog[i].lookups) = Len(envlog[i].lights)
        /\ \A j \in 1..Len(envlog[i].lookups) : envlog[i].lookups[j] = envlog[i].pos
        /\ envlog[i].totweight > 0 => envlog[i].val = EnvColor(envlog[i].pos)

\* a filter_sample call at a roughness above 0 has accepted several samples,
\* one of them with a light direction where the environment has another colour
C10_Witness ==
    \E i \in 1..Len(envlog) :
        /\ envlog[i].roughness > 0 /\ Len(envlog[i].lights) >= 2
        /\ \E j \in 1..Len(envlog[i].lights) :
               EnvColor(envlog[i].lights[j]) # EnvColor(envlog[i].pos)
        /\ envlog[i].val = EnvColor(envlog[i].pos)

====
